---- MODULE Spec2Model ----
(***************************************************************************)
(* Model of the two scripts of the text-embeddings post:                   *)
(*   parse-embeddings.js  (ingestion: read, split, embed, upsert)          *)
(*   query-document.js    (answering: embed, query, complete, print)       *)
(*                                                                         *)
(* A JavaScript string is a sequence of atoms.  An atom is one character   *)
(* ("a", "\n", a decimal digit) or one fixed literal fragment of the       *)
(* program text (the prompt header, the question).  Concatenation is \o.   *)
(***************************************************************************)
EXTENDS Integers, Sequences, FiniteSets

VARIABLES
    \* ---- ingestion process (parse-embeddings.js) and its environment
    env,            \* names of the environment variables that are set
    file,           \* content of the file at FILE_PATH
    pc,             \* position of the ingestion process
    paragraphs,     \* const paragraphs (line 18)
    i,              \* loop variable (line 22)
    store,          \* the collection: record id -> [values, metadata]
    inflight,       \* positions in calls of the requests not yet settled
    calls,          \* network calls issued by the running process, in order
    runs,           \* number of processes launched so far
    prev,           \* the run before the current one: document, outcome, collection before it
    store0,         \* the collection when the current run was launched
    \* ---- answering process (query-document.js)
    keys,           \* the API keys written into query-document.js (lines 5 and 9)
    qpc,            \* position of the answering process
    paragraphsQ,    \* const paragraphs (query-document.js line 24)
    stdout,         \* lines printed by console.log
    \* ---- chunker on its own
    D,              \* a document
    chunks,         \* D.split("\n\n")
    cpc             \* "start" before the split, "split" after it

vars == <<env, file, pc, paragraphs, i, store, inflight, calls, runs, prev, store0,
          keys, qpc, paragraphsQ, stdout, D, chunks, cpc>>

ingestVars == <<env, file, pc, paragraphs, i, runs, prev, store0>>
answerVars == <<keys, qpc, paragraphsQ, stdout>>
chunkerVars == <<D, chunks, cpc>>

----------------------------------------------------------------------------
(* Bounds of the model.                                                    *)

MaxDocLen == 6      \* longest document given to the chunker on its own
MaxFileLen == 8     \* longest document ingested by a single run
MaxRerunLen == 2    \* longest document ingested when runs follow one another
MaxRuns == 2        \* ingestion processes launched one after the other
MaxStored == 6      \* most records in the collection the answering process queries

----------------------------------------------------------------------------
(* Strings.                                                                *)

NL == "\n"
Chars == {"a", NL}

\* The separator of line 18, "\n\n".
Delimiter == <<NL, NL>>

RECURSIVE TextsOfLen(_)
TextsOfLen(n) ==
    IF n = 0 THEN {<<>>}
    ELSE {<<c>> \o t : c \in Chars, t \in TextsOfLen(n - 1)}

TextsUpTo(n) == UNION {TextsOfLen(k) : k \in 0..n}

\* String.prototype.indexOf(sep, from), 1-based; 0 when sep does not occur.
IndexOf(text, sep, from) ==
    LET hits == {p \in from..(Len(text) - Len(sep) + 1) :
                    SubSeq(text, p, p + Len(sep) - 1) = sep}
    IN  IF hits = {} THEN 0 ELSE CHOOSE p \in hits : \A q \in hits : p <= q

RECURSIVE SplitFrom(_, _, _)
SplitFrom(text, sep, from) ==
    LET p == IndexOf(text, sep, from)
    IN  IF p = 0
        THEN <<SubSeq(text, from, Len(text))>>
        ELSE <<SubSeq(text, from, p - 1)>> \o SplitFrom(text, sep, p + Len(sep))

\* A plausible slip: empty segments are filtered out of the result.
SplitNoEmpty(text) ==
    SelectSeq(SplitFrom(text, Delimiter, 1), LAMBDA s : s # <<>>)

\* text.split("\n\n")  (line 18)
Split(text) == SplitFrom(text, Delimiter, 1)

\* Array.prototype.join(sep)
RECURSIVE Join(_, _)
Join(parts, sep) ==
    IF Len(parts) = 0 THEN <<>>
    ELSE IF Len(parts) = 1 THEN parts[1]
    ELSE parts[1] \o sep \o Join(Tail(parts), sep)

Digit(d) == CASE d = 0 -> "0" [] d = 1 -> "1" [] d = 2 -> "2" [] d = 3 -> "3"
              [] d = 4 -> "4" [] d = 5 -> "5" [] d = 6 -> "6" [] d = 7 -> "7"
              [] d = 8 -> "8" [] d = 9 -> "9"

\* Number.prototype.toString() of a non-negative integer: its decimal digits.
RECURSIVE toString(_)
toString(n) ==
    IF n < 10 THEN <<Digit(n)>> ELSE toString(n \div 10) \o <<Digit(n % 10)>>

----------------------------------------------------------------------------
(* The external services.                                                  *)

\* Vectors the embedding service may answer with.
Vectors == {"v1", "v2"}

\* The collection that exists in the vector store.
Collection == "embeddings-post"

EmptyStore == [k \in {} |-> 0]

\* Texts of records ingested earlier: empty, repeated and multi-line ones among them.
SampleText(k) ==
    CASE k % 4 = 0 -> <<"a">>
      [] k % 4 = 1 -> <<>>
      [] k % 4 = 2 -> <<"a", NL, "a">>
      [] OTHER     -> IF k = 3 THEN <<"a">> ELSE <<NL>>

\* A collection holding n records of a document ingested earlier.
Seeded(n) ==
    [k \in {toString(j) : j \in 0..(n - 1)} |->
        LET j == CHOOSE j \in 0..(n - 1) : toString(j) = k
        IN  [values |-> "v1", metadata |-> [text |-> SampleText(j)]]]

InitialCollections == {Seeded(n) : n \in 0..MaxStored}

\* A collection that holds one record nobody ingested in these runs.
StaleStore ==
    [k \in {<<"1">>} |-> [values |-> "v1", metadata |-> [text |-> <<"a", "a", "a", "a">>]]]

\* Insert-or-replace by id, one record after the other.
RECURSIVE Upsert(_, _)
Upsert(st, records) ==
    IF records = <<>> THEN st
    ELSE LET r == Head(records)
             put == [k \in DOMAIN st \cup {r.id} |->
                        IF k = r.id THEN [values |-> r.values, metadata |-> r.metadata]
                        ELSE st[k]]
         IN  Upsert(put, Tail(records))

\* One entry of the call log: the request, and how it was settled.
Call(op, chunk, arg) ==
    [op |-> op, chunk |-> chunk, arg |-> arg, status |-> "pending", value |-> "none"]

Settled(log, k, status, value) ==
    [log EXCEPT ![k].status = status, ![k].value = value]

----------------------------------------------------------------------------
(* parse-embeddings.js                                                     *)

EnvNames == {"OPEN_AI_KEY", "PINECONE_KEY", "INDEX_NAME", "FILE_PATH"}

Files == TextsUpTo(MaxFileLen)

Running == {"load", "execute", "loop", "embed", "upsert"}
Stopped == {"idle", "done", "failed", "killed"}

\* process.env.INDEX_NAME, rendered by the client as the name it asks for
IndexName == IF "INDEX_NAME" \in env THEN Collection ELSE "undefined"

\* A plausible slip: ids continue after the records already stored.
RecordIdAppended(n) == toString(n + Cardinality(DOMAIN store))

\* id: i.toString()  (line 28)
RecordId(n) == toString(n)

\* A plausible slip: the text is trimmed before it is stored.
RecordTrimmed(n, text, embedding) ==
    [id |-> RecordId(n), values |-> embedding,
     metadata |-> [text |-> IF text # <<>> /\ text[Len(text)] = NL
                            THEN SubSeq(text, 1, Len(text) - 1) ELSE text]]

\* The record of lines 27-33.
Record(n, text, embedding) ==
    [id |-> RecordId(n), values |-> embedding, metadata |-> [text |-> text]]

\* The environments a run is given: every variable set, or one of them missing.
Envs == {EnvNames} \cup {EnvNames \ {n} : n \in EnvNames}

\* node parse-embeddings.js, in environment e, with f the content of the file.
Start(e, f) ==
    /\ env' = e
    /\ file' = f
    /\ pc' = "load"
    /\ runs' = runs + 1
    /\ prev' = [doc |-> file, outcome |-> pc, before |-> store0]
    /\ store0' = store
    /\ paragraphs' = <<>>
    /\ i' = 0
    /\ calls' = <<>>
    /\ inflight' = {}
    /\ UNCHANGED <<store, answerVars, chunkerVars>>

\* The first run against the collection.
Launch ==
    /\ pc = "idle"
    /\ qpc = "idle"
    /\ \E e \in Envs :
       \E f \in (IF "FILE_PATH" \in e THEN Files ELSE {<<>>}) : Start(e, f)

\* The first of several runs against the collection.
FirstRun ==
    /\ pc = "idle"
    /\ \E f \in TextsUpTo(MaxRerunLen) : Start(EnvNames, f)

\* A further run against the same collection, once the run before has ended.
Relaunch ==
    /\ pc \in Stopped \ {"idle"}
    /\ runs < MaxRuns
    /\ \E f \in TextsUpTo(MaxRerunLen) : Start(EnvNames, f)

\* new OpenAI({apiKey}), new Pinecone({apiKey}): each client rejects an
\* undefined key when it is constructed.
ConstructClients ==
    /\ pc = "load"
    /\ pc' = IF {"OPEN_AI_KEY", "PINECONE_KEY"} \subseteq env THEN "execute" ELSE "failed"
    /\ UNCHANGED <<env, file, paragraphs, i, store, inflight, calls, runs, prev, store0,
                   answerVars, chunkerVars>>

\* readFileSync, split, pinecone.index(name): the name is not looked at here.
ReadDocument ==
    /\ pc = "execute"
    /\ IF "FILE_PATH" \in env
       THEN /\ paragraphs' = Split(file)
            /\ pc' = "loop"
       ELSE /\ paragraphs' = paragraphs
            /\ pc' = "failed"
    /\ i' = 0
    /\ UNCHANGED <<env, file, store, inflight, calls, runs, prev, store0,
                   answerVars, chunkerVars>>

\* The loop test, and getEmbedding(paragraphs[i]) up to its await.
LoopStep ==
    /\ pc = "loop"
    /\ IF i < Len(paragraphs)
       THEN /\ calls' = Append(calls, Call("embed", i, paragraphs[i + 1]))
            /\ inflight' = inflight \cup {Len(calls) + 1}
            /\ pc' = "embed"
       ELSE /\ calls' = calls
            /\ inflight' = inflight
            /\ pc' = "done"
    /\ UNCHANGED <<env, file, paragraphs, i, store, runs, prev, store0,
                   answerVars, chunkerVars>>

\* A plausible slip: index.upsert is not awaited, the loop goes on at once.
EmbedResolveNoAwait ==
    /\ pc = "embed"
    /\ \E embedding \in Vectors :
          LET k == Len(calls)
              request == [index |-> IndexName,
                          records |-> <<Record(i, paragraphs[i + 1], embedding)>>]
          IN  /\ calls' = Append(Settled(calls, k, "ok", embedding), Call("upsert", i, request))
              /\ inflight' = (inflight \ {k}) \cup {k + 1}
    /\ i' = i + 1
    /\ pc' = "loop"
    /\ UNCHANGED <<env, file, paragraphs, store, runs, prev, store0,
                   answerVars, chunkerVars>>

\* The embedding arrives; index.upsert([record]) up to its await.
EmbedResolve ==
    /\ pc = "embed"
    /\ \E embedding \in Vectors :
          LET k == Len(calls)
              request == [index |-> IndexName,
                          records |-> <<Record(i, paragraphs[i + 1], embedding)>>]
          IN  /\ calls' = Append(Settled(calls, k, "ok", embedding), Call("upsert", i, request))
              /\ inflight' = (inflight \ {k}) \cup {k + 1}
    /\ pc' = "upsert"
    /\ UNCHANGED <<env, file, paragraphs, i, store, runs, prev, store0,
                   answerVars, chunkerVars>>

\* A plausible slip: the rejection is caught and the loop goes on.
EmbedRejectSwallowed ==
    /\ pc = "embed"
    /\ calls' = Settled(calls, Len(calls), "error", "none")
    /\ inflight' = inflight \ {Len(calls)}
    /\ i' = i + 1
    /\ pc' = "loop"
    /\ UNCHANGED <<env, file, paragraphs, store, runs, prev, store0,
                   answerVars, chunkerVars>>

\* The embedding call rejects: nothing catches it, the process ends.
EmbedReject ==
    /\ pc = "embed"
    /\ calls' = Settled(calls, Len(calls), "error", "none")
    /\ inflight' = inflight \ {Len(calls)}
    /\ pc' = "failed"
    /\ UNCHANGED <<env, file, paragraphs, i, store, runs, prev, store0,
                   answerVars, chunkerVars>>

\* The store acknowledges the upsert; i++.
UpsertResolve ==
    /\ pc = "upsert"
    /\ LET k == Len(calls)
       IN  /\ calls[k].arg.index = Collection
           /\ store' = Upsert(store, calls[k].arg.records)
           /\ calls' = Settled(calls, k, "ok", "ack")
           /\ inflight' = inflight \ {k}
    /\ i' = i + 1
    /\ pc' = "loop"
    /\ UNCHANGED <<env, file, paragraphs, runs, prev, store0, answerVars, chunkerVars>>

\* The upsert call rejects: the collection does not exist, or the network
\* failed before or after the store applied the request.
UpsertReject ==
    /\ pc = "upsert"
    /\ LET k == Len(calls)
       IN  /\ store' \in {store} \cup
                (IF calls[k].arg.index = Collection
                 THEN {Upsert(store, calls[k].arg.records)} ELSE {})
           /\ calls' = Settled(calls, k, "error", "none")
           /\ inflight' = inflight \ {k}
    /\ pc' = "failed"
    /\ UNCHANGED <<env, file, paragraphs, i, runs, prev, store0, answerVars, chunkerVars>>

\* The process is interrupted; an upsert on its way is applied or lost.
Kill ==
    /\ pc \in Running
    /\ store' \in {store} \cup
         (IF pc = "upsert" /\ calls[Len(calls)].arg.index = Collection
          THEN {Upsert(store, calls[Len(calls)].arg.records)} ELSE {})
    /\ inflight' = {}
    /\ pc' = "killed"
    /\ UNCHANGED <<env, file, paragraphs, i, calls, runs, prev, store0,
                   answerVars, chunkerVars>>

----------------------------------------------------------------------------
(* query-document.js                                                       *)

\* const question  (line 14)
question == <<"What is the moral of the story?">>

\* topK  (line 20)
TopK == 5

Answers == {"answer 1", "answer 2"}

Header == "Answer the user's question using the following chunks:"
Indent == "        "

RECURSIVE SeqsOver(_, _)
\* The sequences of n distinct elements of S.
SeqsOver(S, n) ==
    IF n = 0 THEN {<<>>}
    ELSE UNION {{<<x>> \o t : t \in SeqsOver(S \ {x}, n - 1)} : x \in S}

Min(a, b) == IF a <= b THEN a ELSE b

\* What the store may answer a query with: at most topK records of the
\* collection, none twice, in the order of its choosing, each with its
\* metadata when the request asks for it.
QueryAnswers(st, request) ==
    LET match(id) == IF request.includeMetadata
                     THEN [id |-> id, metadata |-> st[id].metadata]
                     ELSE [id |-> id]
        ids == UNION {SeqsOver(DOMAIN st, n) : n \in 0..Min(request.topK, Cardinality(DOMAIN st))}
    IN  {[matches |-> [k \in 1..Len(s) |-> match(s[k])]] : s \in ids}

\* A plausible slip: a text retrieved twice is kept once.
TextsDeduplicated(matches) ==
    LET all == [k \in 1..Len(matches) |-> matches[k].metadata.text]
        first(k) == \A j \in 1..(k - 1) : all[j] # all[k]
        RECURSIVE keep(_)
        keep(k) == IF k > Len(all) THEN <<>>
                   ELSE (IF first(k) THEN <<all[k]>> ELSE <<>>) \o keep(k + 1)
    IN  keep(1)

\* result.matches.map(({ metadata: { text } }) => text)  (line 24)
Texts(matches) == [k \in 1..Len(matches) |-> matches[k].metadata.text]

\* A plausible slip: the context block is left out when nothing was retrieved.
SystemPromptFromFirst(texts) ==
    IF texts = <<>> THEN <<Header>>
    ELSE <<Header, NL, Indent>> \o Join(texts, <<NL>>) \o <<NL, Indent>>

\* The template literal of lines 30-32.
SystemPrompt(texts) ==
    <<Header, NL, Indent>> \o Join(texts, <<NL>>) \o <<NL, Indent>>

\* The messages of lines 27-35.
Messages(texts) ==
    << [role |-> "system", content |-> SystemPrompt(texts)],
       [role |-> "user", content |-> question] >>

\* The placeholders of lines 5 and 9, which the reader replaces by keys.
KeyNames == {"OPEN_AI_KEY", "PINECONE_KEY"}

\* node query-document.js, with some of the keys pasted into the file.
Ask ==
    /\ qpc = "idle"
    /\ pc = "idle"
    /\ keys' \in SUBSET KeyNames
    /\ qpc' = "load"
    /\ UNCHANGED <<ingestVars, store, inflight, calls, paragraphsQ, stdout, chunkerVars>>

\* The script is parsed and run up to the first await.  With a placeholder
\* left, `apiKey: ,` is a SyntaxError and nothing runs; otherwise the clients
\* and the index are made and getEmbedding(question) is called.
LoadScript ==
    /\ qpc = "load"
    /\ IF keys = KeyNames
       THEN /\ calls' = <<Call("embed", -1, question)>>
            /\ inflight' = {1}
            /\ qpc' = "embed"
       ELSE /\ calls' = calls
            /\ inflight' = inflight
            /\ qpc' = "failed"
    /\ UNCHANGED <<ingestVars, store, keys, paragraphsQ, stdout, chunkerVars>>

\* The question's embedding arrives; index.query(...) up to its await.
QuestionEmbedded ==
    /\ qpc = "embed"
    /\ \E queryEmbedding \in Vectors :
          LET k == Len(calls)
              request == [index |-> Collection, vector |-> queryEmbedding,
                          topK |-> TopK, includeMetadata |-> TRUE]
          IN  /\ calls' = Append(Settled(calls, k, "ok", queryEmbedding),
                                 Call("query", -1, request))
              /\ inflight' = (inflight \ {k}) \cup {k + 1}
    /\ qpc' = "query"
    /\ UNCHANGED <<ingestVars, store, keys, paragraphsQ, stdout, chunkerVars>>

\* The matches arrive; their texts are extracted and the completion is
\* requested.  A match without metadata makes the destructuring throw.
QueryAnswered ==
    /\ qpc = "query"
    /\ LET k == Len(calls)
       IN  \E result \in QueryAnswers(store, calls[k].arg) :
              IF \A m \in 1..Len(result.matches) : "metadata" \in DOMAIN result.matches[m]
              THEN /\ paragraphsQ' = Texts(result.matches)
                   /\ calls' = Append(Settled(calls, k, "ok", result),
                                      Call("completion", -1,
                                           [messages |-> Messages(paragraphsQ'),
                                            model |-> "gpt-3.5-turbo"]))
                   /\ inflight' = (inflight \ {k}) \cup {k + 1}
                   /\ qpc' = "complete"
              ELSE /\ paragraphsQ' = paragraphsQ
                   /\ calls' = Settled(calls, k, "ok", result)
                   /\ inflight' = inflight \ {k}
                   /\ qpc' = "failed"
    /\ UNCHANGED <<ingestVars, store, keys, stdout, chunkerVars>>

\* The completion arrives and is printed.
Completed ==
    /\ qpc = "complete"
    /\ \E content \in Answers :
          /\ calls' = Settled(calls, Len(calls), "ok", content)
          /\ stdout' = Append(stdout, content)
    /\ inflight' = inflight \ {Len(calls)}
    /\ qpc' = "done"
    /\ UNCHANGED <<ingestVars, store, keys, paragraphsQ, chunkerVars>>

\* The call being awaited rejects: nothing catches it, the process ends.
Rejected ==
    /\ qpc \in {"embed", "query", "complete"}
    /\ calls' = Settled(calls, Len(calls), "error", "none")
    /\ inflight' = inflight \ {Len(calls)}
    /\ qpc' = "failed"
    /\ UNCHANGED <<ingestVars, store, keys, paragraphsQ, stdout, chunkerVars>>

----------------------------------------------------------------------------
(* The chunker on its own.                                                 *)

Chunk ==
    /\ cpc = "start"
    /\ chunks' = Split(D)
    /\ cpc' = "split"
    /\ UNCHANGED <<ingestVars, store, inflight, calls, answerVars, D>>

----------------------------------------------------------------------------
(* Specifications.                                                         *)

ProcessesIdle ==
    /\ env = {}
    /\ file = <<>>
    /\ pc = "idle"
    /\ paragraphs = <<>>
    /\ i = 0
    /\ inflight = {}
    /\ calls = <<>>
    /\ runs = 0
    /\ prev = [doc |-> <<>>, outcome |-> "idle", before |-> EmptyStore]
    /\ store0 = store
    /\ keys = {}
    /\ qpc = "idle"
    /\ paragraphsQ = <<>>
    /\ stdout = <<>>

\* One run of either script against a collection.
Init ==
    /\ store \in InitialCollections
    /\ ProcessesIdle
    /\ D = <<>>
    /\ chunks = <<>>
    /\ cpc = "idle"

Next ==
    \/ Launch
    \/ ConstructClients
    \/ ReadDocument
    \/ LoopStep
    \/ EmbedResolve
    \/ EmbedReject
    \/ UpsertResolve
    \/ UpsertReject
    \/ Kill
    \/ Ask
    \/ LoadScript
    \/ QuestionEmbedded
    \/ QueryAnswered
    \/ Completed
    \/ Rejected

Spec == Init /\ [][Next]_vars

\* Ingestion runs that follow one another against the same collection.
InitRerun ==
    /\ store \in {EmptyStore, StaleStore}
    /\ ProcessesIdle
    /\ D = <<>>
    /\ chunks = <<>>
    /\ cpc = "idle"

NextRerun ==
    \/ FirstRun
    \/ Relaunch
    \/ ConstructClients
    \/ ReadDocument
    \/ LoopStep
    \/ EmbedResolve
    \/ EmbedReject
    \/ UpsertResolve
    \/ UpsertReject
    \/ Kill

SpecRerun == InitRerun /\ [][NextRerun]_vars

\* The split applied to every document up to MaxDocLen.
InitChunker ==
    /\ store = EmptyStore
    /\ ProcessesIdle
    /\ D \in TextsUpTo(MaxDocLen)
    /\ chunks = <<>>
    /\ cpc = "start"

NextChunker == Chunk

SpecChunker == InitChunker /\ [][NextChunker]_vars

----------------------------------------------------------------------------
(* Properties.                                                             *)

Ids(n) == {toString(m) : m \in 0..(n - 1)}

\* The id -> text mapping of a collection.
TextMap(st) == [k \in DOMAIN st |-> st[k].metadata.text]

DigitValue(c) == CHOOSE d \in 0..9 : Digit(d) = c

RECURSIVE DecimalValue(_)
DecimalValue(s) ==
    IF Len(s) = 1 THEN DigitValue(s[1])
    ELSE 10 * DecimalValue(SubSeq(s, 1, Len(s) - 1)) + DigitValue(s[Len(s)])

\* s is the decimal rendering of n: digits only, no leading zero, value n.
IsDecimalOf(s, n) ==
    /\ Len(s) >= 1
    /\ \A k \in 1..Len(s) : \E d \in 0..9 : s[k] = Digit(d)
    /\ Len(s) > 1 => s[1] # "0"
    /\ DecimalValue(s) = n

\* C1: the chunks of every document are at least one, and joined in order
\* with the delimiter put back between them they give the document again;
\* the empty document gives exactly one empty chunk.
C1_SplitReconstructs ==
    cpc = "split" =>
        /\ Len(chunks) >= 1
        /\ Join(chunks, Delimiter) = D
        /\ D = <<>> => chunks = << <<>> >>

\* Three line breaks in a row: an empty chunk, then a chunk of one line break.
C1_Witness ==
    /\ cpc = "split"
    /\ D = <<NL, NL, NL>>
    /\ chunks = << <<>>, <<NL>> >>

\* C2: every record handed to upsert has the decimal rendering of its
\* chunk's zero-based index as id, the chunk's text unchanged as metadata
\* text and the vector the embed call for that chunk returned; once the
\* upsert is acknowledged the collection holds that record under that id.
C2_RecordOfChunk ==
    \A k \in 1..Len(calls) :
        calls[k].op = "upsert" =>
            LET c == calls[k]
                e == calls[k - 1]
                r == c.arg.records[1]
            IN  /\ Len(c.arg.records) = 1
                /\ c.chunk \in 0..(Len(paragraphs) - 1)
                /\ IsDecimalOf(r.id, c.chunk)
                /\ r.metadata = [text |-> Split(file)[c.chunk + 1]]
                /\ e.op = "embed" /\ e.chunk = c.chunk /\ e.status = "ok"
                /\ e.arg = Split(file)[c.chunk + 1]
                /\ r.values = e.value
                /\ c.status = "ok" =>
                      /\ r.id \in DOMAIN store
                      /\ store[r.id] = [values |-> r.values, metadata |-> r.metadata]

\* A document of two different chunks, both upserted.
C2_Witness ==
    /\ pc = "done"
    /\ file = <<"a", NL, NL, NL, "a">>
    /\ store[<<"0">>].metadata.text = <<"a">>
    /\ store[<<"1">>].metadata.text = <<NL, "a">>

\* C3: a complete run of a document right after a complete run of the same
\* document leaves the number of records and the id -> text mapping as the
\* first run left them.
C3_Idempotent ==
    (pc = "done" /\ prev.outcome = "done" /\ prev.doc = file) =>
        /\ Cardinality(DOMAIN store) = Cardinality(DOMAIN store0)
        /\ TextMap(store) = TextMap(store0)

\* Two complete runs of a two-chunk document against a collection that held
\* another record before.
C3_Witness ==
    /\ pc = "done" /\ prev.outcome = "done" /\ prev.doc = file
    /\ Len(paragraphs) = 2
    /\ prev.before = StaleStore

\* C4: when the embed or the upsert call for chunk j fails, the run has
\* ended with nothing in flight and that call is the last one it issued (no
\* retry, nothing for a later chunk); chunks 0..j-1 are in the collection
\* with their ids and texts; after a failed embed no upsert was issued for
\* chunk j and the record of id j is as it was before the run.
C4_FailFast ==
    \A k \in 1..Len(calls) :
        (pc # "idle" /\ calls[k].status = "error") =>
            LET j == calls[k].chunk
            IN  /\ pc = "failed"
                /\ k = Len(calls)
                /\ inflight = {}
                /\ \A m \in 1..Len(calls) : calls[m].chunk <= j
                /\ Len(calls) = IF calls[k].op = "embed" THEN 2 * j + 1 ELSE 2 * j + 2
                /\ \A m \in 0..(j - 1) :
                      /\ toString(m) \in DOMAIN store
                      /\ store[toString(m)].metadata.text = Split(file)[m + 1]
                /\ calls[k].op = "embed" =>
                      /\ \A m \in 1..Len(calls) : ~(calls[m].op = "upsert" /\ calls[m].chunk = j)
                      /\ IF toString(j) \in DOMAIN store0
                         THEN toString(j) \in DOMAIN store /\ store[toString(j)] = store0[toString(j)]
                         ELSE toString(j) \notin DOMAIN store

\* The embed call for chunk 2 of a five-chunk document fails, into an empty
\* collection: chunks 0 and 1 are stored, nothing else is.
C4_Witness ==
    /\ pc = "failed"
    /\ Len(paragraphs) = 5
    /\ Len(calls) = 5
    /\ calls[5].op = "embed" /\ calls[5].status = "error" /\ calls[5].chunk = 2
    /\ store0 = EmptyStore
    /\ DOMAIN store = {<<"0">>, <<"1">>}

\* C5: at most one request is in flight and every call but the last one
\* issued is settled; ingestion calls embed(0), upsert(0), embed(1),
\* upsert(1), ... with one record per upsert, and a completed run made
\* exactly one embed and one upsert call per chunk; answering calls embed,
\* query, completion in this order and prints once, after the completion.
C5_Sequential ==
    /\ Cardinality(inflight) <= 1
    /\ \A k \in 1..(Len(calls) - 1) : calls[k].status = "ok"
    /\ \A k \in inflight : k = Len(calls) /\ calls[k].status = "pending"
    /\ pc # "idle" =>
          /\ \A k \in 1..Len(calls) :
                /\ calls[k].op = IF k % 2 = 1 THEN "embed" ELSE "upsert"
                /\ calls[k].chunk = (k - 1) \div 2
                /\ calls[k].op = "upsert" => Len(calls[k].arg.records) = 1
          /\ pc = "done" =>
                /\ Len(calls) = 2 * Len(Split(file))
                /\ calls[Len(calls)].status = "ok"
    /\ qpc # "idle" =>
          /\ Len(calls) \in 0..3
          /\ \A k \in 1..Len(calls) : calls[k].op = <<"embed", "query", "completion">>[k]
          /\ Len(calls) = 0 => qpc = "load" \/ (qpc = "failed" /\ keys # KeyNames)
          /\ Len(calls) >= 1 => calls[1].arg = question
          /\ IF qpc = "done"
             THEN Len(calls) = 3 /\ calls[3].status = "ok" /\ stdout = <<calls[3].value>>
             ELSE stdout = <<>>

\* A complete run over three chunks: six calls, all settled.
C5_Witness ==
    /\ pc = "done"
    /\ Len(paragraphs) = 3
    /\ Len(calls) = 6
    /\ inflight = {}

\* Where the text of match m starts in the system prompt.
RECURSIVE Offset(_, _)
Offset(matches, m) ==
    IF m = 1 THEN 4
    ELSE Offset(matches, m - 1) + Len(matches[m - 1].metadata.text) + 1

\* C6: every query asks for 5 results with metadata; the system prompt sent
\* to the completion holds, after its header, the text of each match the
\* store returned, once, unchanged, in the order returned, a newline between
\* two of them, and nothing else before its closing line.
C6_PromptHoldsEveryMatch ==
    \A k \in 1..Len(calls) :
        /\ calls[k].op = "query" =>
              /\ calls[k].arg.topK = 5
              /\ calls[k].arg.includeMetadata = TRUE
        /\ calls[k].op = "completion" =>
              LET matches == calls[k - 1].value.matches
                  n == Len(matches)
                  content == calls[k].arg.messages[1].content
                  end == IF n = 0 THEN 4
                         ELSE Offset(matches, n) + Len(matches[n].metadata.text)
              IN  /\ calls[k].arg.messages[1].role = "system"
                  /\ SubSeq(content, 1, 3) = <<Header, NL, Indent>>
                  /\ \A m \in 1..n :
                        LET t == matches[m].metadata.text
                            at == Offset(matches, m)
                        IN  /\ t = store[matches[m].id].metadata.text
                            /\ SubSeq(content, at, at + Len(t) - 1) = t
                            /\ m < n => content[at + Len(t)] = NL
                  /\ Len(content) = end + 1
                  /\ SubSeq(content, end, end + 1) = <<NL, Indent>>

\* Five of six records retrieved, the last one first, two of them with the
\* same text, and the answer printed.
C6_Witness ==
    /\ qpc = "done"
    /\ Cardinality(DOMAIN store) = 6
    /\ Len(calls[2].value.matches) = 5
    /\ calls[2].value.matches[1].id = <<"5">>
    /\ calls[2].value.matches[2].id = <<"3">>
    /\ calls[2].value.matches[3].id = <<"0">>

\* C7: when the query is answered with zero matches the run goes on: the
\* completion is called, once, with a system prompt whose context block is
\* empty and the question as the user message, and a run that completes
\* prints the answer returned; the run fails only if that call rejects.
C7_ZeroMatches ==
    \A k \in 1..Len(calls) :
        (calls[k].op = "query" /\ calls[k].status = "ok" /\ calls[k].value.matches = <<>>) =>
            /\ Len(calls) = k + 1
            /\ calls[k + 1].op = "completion"
            /\ calls[k + 1].arg.messages =
                  << [role |-> "system", content |-> <<Header, NL, Indent, NL, Indent>>],
                     [role |-> "user", content |-> question] >>
            /\ qpc \in {"complete", "done", "failed"}
            /\ qpc = "failed" => calls[k + 1].status = "error"
            /\ qpc = "done" => stdout = <<calls[k + 1].value>>

\* An empty collection queried, and the answer printed.
C7_Witness ==
    /\ qpc = "done"
    /\ store = EmptyStore
    /\ calls[2].value.matches = <<>>
    /\ stdout # <<>>

\* C8: a run that lacks one of its configuration inputs issues no network
\* call and does not complete: an ingestion run without one of its four
\* environment variables, an answering run without one of its keys.
C8_NoCallWithoutConfiguration ==
    /\ (pc # "idle" /\ env # EnvNames) =>
          /\ calls = <<>>
          /\ pc # "done"
    /\ (qpc # "idle" /\ keys # KeyNames) =>
          /\ calls = <<>>
          /\ qpc \in {"load", "failed"}
          /\ stdout = <<>>

\* The collection after one uninterrupted run of doc against st, as id -> text.
Uninterrupted(st, doc) ==
    LET n == Len(Split(doc))
    IN  [k \in DOMAIN st \cup Ids(n) |->
            IF k \in Ids(n) THEN Split(doc)[DecimalValue(k) + 1] ELSE st[k].metadata.text]

\* The collection the run of D started from, counting an interrupted run of
\* the same D right before it as part of it.
Base == IF prev.outcome = "killed" /\ prev.doc = file THEN prev.before ELSE store0

\* C9: a run of D interrupted anywhere and then a complete run of D leave
\* the ids and the id -> text mapping one uninterrupted run of D leaves; in
\* every state on the way each record is as it was before the two runs or
\* has the id and text of a chunk of D.
C9_RestartAfterInterrupt ==
    /\ (pc = "done" /\ prev.outcome = "killed" /\ prev.doc = file) =>
          TextMap(store) = Uninterrupted(prev.before, file)
    /\ (pc \notin {"idle", "load", "execute"}) =>
          \A id \in DOMAIN store :
              \/ id \in DOMAIN Base /\ store[id] = Base[id]
              \/ /\ id \in Ids(Len(Split(file)))
                 /\ store[id].metadata.text = Split(file)[DecimalValue(id) + 1]

\* A two-chunk document, interrupted after something was stored, then run
\* again to the end.
C9_Witness ==
    /\ pc = "done" /\ prev.outcome = "killed" /\ prev.doc = file
    /\ Len(paragraphs) = 2
    /\ store0 # prev.before
    /\ store # store0

\* Every run so far was a complete one, the first against an empty collection.
OnlyCompleteRunsFromEmpty ==
    /\ pc = "done"
    /\ \/ prev.outcome = "idle" /\ store0 = EmptyStore
       \/ prev.outcome = "done" /\ prev.before = EmptyStore

\* C10 as claimed: after complete runs only, the collection holds exactly
\* the records "0".."n-1" of the document ingested last.
C10_OnlyLastDocument ==
    OnlyCompleteRunsFromEmpty =>
        /\ DOMAIN store = Ids(Len(paragraphs))
        /\ \A m \in 0..(Len(paragraphs) - 1) :
              store[toString(m)].metadata.text = paragraphs[m + 1]

\* C10 as amended: after a complete run the collection holds the records
\* "0".."n-1" with the chunks of the document just ingested, and every
\* record of another id that was there before the run, unchanged.
C10_LastDocumentOverEarlier ==
    pc = "done" =>
        LET n == Len(Split(file))
        IN  /\ DOMAIN store = DOMAIN store0 \cup Ids(n)
            /\ \A m \in 0..(n - 1) :
                  store[toString(m)].metadata.text = Split(file)[m + 1]
            /\ \A id \in DOMAIN store0 \ Ids(n) : store[id] = store0[id]

\* A two-chunk document, then a one-chunk document: the second record of
\* the first document is still there.
C10_Witness ==
    /\ OnlyCompleteRunsFromEmpty
    /\ prev.outcome = "done"
    /\ Len(Split(prev.doc)) = 2
    /\ Len(paragraphs) = 1
    /\ DOMAIN store = {<<"0">>, <<"1">>}

====
